---- MODULE Spec2Model ----
(***************************************************************************)
(* Discrete-time traffic simulation of the A-2 road: the engine shared by  *)
(* atascos.py, trafico.py and traff.py (entry queue, admission, lane       *)
(* change, car following, exit sweep) and the simpler a2.py.               *)
(*                                                                         *)
(* Fixed point: positions and lengths in decimetres, speeds in dm/s, time  *)
(* in tenths of a second.  A float division is the floor of the quotient;  *)
(* comparisons are made exactly by cross-multiplying.                      *)
(***************************************************************************)
EXTENDS Integers, Sequences, FiniteSets, TLC

VARIABLES variant, pc, t, dt, next_arrival, next_id, veh, lanes, queues,
          entry_queue, lane_idx, todo, slows, upd, active0, promoted,
          last, arrived, dropped, vehicles, finished, arrival_times,
          total_speed, speed_samples, stats_flow, speeds_finished, run,
          first_stats, rows, uncapped, ticks, horizon, opened

vars == <<variant, pc, t, dt, next_arrival, next_id, veh, lanes, queues,
          entry_queue, lane_idx, todo, slows, upd, active0, promoted,
          last, arrived, dropped, vehicles, finished, arrival_times,
          total_speed, speed_samples, stats_flow, speeds_finished, run,
          first_stats, rows, uncapped, ticks, horizon, opened>>

(***************************************************************************)
(* Bounds of the model.                                                    *)
(***************************************************************************)
\* number of whole seconds simulated (SIM_SECONDS scaled down)
MaxTicks == 4
\* random slowdowns drawn in one run
MaxSlow == 1
\* road length in dm (ROAD_LENGTH_M scaled down)
RoadLen == 1000
\* ticks left to run when a run is taken up in mid-course
SceneTicks == 2
\* vehicles on the road when a run is taken up in mid-course
SceneVeh == 3
\* whole seconds of the positive horizon of a run started with a configuration
ConfigTicks == 2
\* rows the trajectory file can hold, header included (MAX_LINES scaled down)
MaxLines == 5

(***************************************************************************)
(* Program constants.                                                      *)
(***************************************************************************)
NUM_LANES == 3
VEHICLE_LENGTH == 45
MIN_GAP == 20
\* 1.8 s, in tenths of a second
SAFE_TIME_HEADWAY == 18
\* DT = 1.0 s
DT == 10
\* 3.0 m/s lost in a random slowdown
SLOWDOWN_DEC == 30
\* decel_max = 6.0 m/s^2, in dm/s^2
DECEL_MAX == 60
\* accel = 1.5 m/s^2, in dm/s^2
ACCEL == 15
\* 120 km/h in tenths of km/h
MAX_SPEED_KMH == 1200
\* rows of the trajectory file after which speeds are no longer sampled
MAX_LINES == MaxLines

Min(a, b) == IF a < b THEN a ELSE b

Max(a, b) == IF a > b THEN a ELSE b

\* tenths of km/h to dm/s
kmh_to_ms(k) == (k * 100) \div 360

MAX_SPEED == kmh_to_ms(MAX_SPEED_KMH)

ROAD_LENGTH_M == RoadLen

SIM_SECONDS == MaxTicks * 10

Variants == {"atascos", "trafico", "traff", "a2"}

VehTypes(vt) ==
  IF vt = "atascos" THEN {"car", "truck", "emergency"}
  ELSE {"car", "truck", "ambulance"}

\* priority rank of a class
Priority(vt, ty) ==
  CASE vt = "atascos" -> (CASE ty = "emergency" -> 3 [] ty = "truck" -> 2 [] OTHER -> 1)
    [] vt = "trafico" -> (CASE ty = "ambulance" -> 2 [] ty = "car" -> 1 [] OTHER -> 0)
    [] OTHER -> (CASE ty = "ambulance" -> 3 [] ty = "car" -> 2 [] OTHER -> 1)

\* length of a vehicle of a class
Length(vt, ty) ==
  IF vt = "traff" /\ ty = "truck" THEN 120 ELSE VEHICLE_LENGTH

\* class ceiling, in tenths of km/h
ClassKmh(vt, ty) ==
  CASE vt = "atascos" -> MAX_SPEED_KMH
    [] vt = "trafico" -> (CASE ty = "truck" -> (MAX_SPEED_KMH * 7) \div 10
                            [] ty = "ambulance" -> (MAX_SPEED_KMH * 11) \div 10
                            [] OTHER -> MAX_SPEED_KMH)
    [] OTHER -> (CASE ty = "truck" -> 850 [] ty = "ambulance" -> 1400 [] OTHER -> 1200)

\* class ceiling (max_speed / preferred_speed) in dm/s
ClassSpeed(vt, ty) == kmh_to_ms(ClassKmh(vt, ty))

\* speed of a new vehicle: 0.6 of the class ceiling
InitSpeed(vt, ty) == kmh_to_ms((ClassKmh(vt, ty) * 6) \div 10)

\* acceleration of a class in dm/s^2
Accel(vt, ty) ==
  IF vt = "traff"
  THEN (CASE ty = "truck" -> 9 [] ty = "ambulance" -> 20 [] OTHER -> 15)
  ELSE ACCEL

\* lane speed limits of traff.py in dm/s
LANE_SPEED_MS(l) ==
  CASE l = 0 -> kmh_to_ms(1200) [] l = 1 -> kmh_to_ms(1000) [] OTHER -> kmh_to_ms(900)

\* seconds between two arrivals: 60 / ARRIVAL_RATE_PER_MIN, in tenths
ArrivalInterval(vt) == IF vt = "atascos" THEN 600 \div 30 ELSE 600 \div 40

(***************************************************************************)
(* Lane lists: sequences of vehicle ids, lane l is lanes[l + 1].           *)
(***************************************************************************)
\* a vehicle at the road start; arr is its rank among the arrivals generated
NewVehicle(ty, l, te, s, a) ==
  [type |-> ty, lane |-> l, x |-> 0, v |-> InitSpeed(variant, ty),
   entry_time |-> te, exit_time |-> -1, st |-> s, arr |-> a]

RECURSIVE InsertByX(_, _, _)
\* e placed after every element whose position is <= its own
InsertByX(vf, s, e) ==
  IF s = <<>> THEN <<e>>
  ELSE IF vf[s[Len(s)]].x <= vf[e].x THEN Append(s, e)
  ELSE Append(InsertByX(vf, SubSeq(s, 1, Len(s) - 1), e), s[Len(s)])

RECURSIVE SortByX(_, _)
\* list.sort(key=lambda v: v.x): stable, ascending
SortByX(vf, s) ==
  IF s = <<>> THEN <<>>
  ELSE InsertByX(vf, SortByX(vf, SubSeq(s, 1, Len(s) - 1)), s[Len(s)])

RECURSIVE RemoveFirst(_, _)
\* list.remove(e): the first occurrence
RemoveFirst(s, e) ==
  IF s = <<>> THEN <<>>
  ELSE IF Head(s) = e THEN Tail(s)
  ELSE <<Head(s)>> \o RemoveFirst(Tail(s), e)

\* min(ahead, key=x) over the vehicles of list with x > x0; 0 when none
NearestAhead(vf, list, x0) ==
  LET cand == {k \in 1 .. Len(list) : vf[list[k]].x > x0}
  IN  IF cand = {} THEN 0
      ELSE list[CHOOSE k \in cand : \A j \in cand :
                  \/ vf[list[k]].x < vf[list[j]].x
                  \/ (vf[list[k]].x = vf[list[j]].x /\ k <= j)]

\* max(behind, key=x) over the vehicles of list with x <= x0; 0 when none
NearestBehind(vf, list, x0) ==
  LET cand == {k \in 1 .. Len(list) : vf[list[k]].x <= x0}
  IN  IF cand = {} THEN 0
      ELSE list[CHOOSE k \in cand : \A j \in cand :
                  \/ vf[list[k]].x > vf[list[j]].x
                  \/ (vf[list[k]].x = vf[list[j]].x /\ k <= j)]

\* Highway.vehicle_ahead / Highway.ahead
vehicle_ahead(vf, ln, i) == NearestAhead(vf, ln[vf[i].lane + 1], vf[i].x)

\* Highway.add_vehicle: append, then sort the lane
add_vehicle(vf, ln, i) ==
  [ln EXCEPT ![vf[i].lane + 1] = SortByX(vf, Append(@, i))]

\* Highway.remove_vehicle
remove_vehicle(vf, ln, i) ==
  [ln EXCEPT ![vf[i].lane + 1] = RemoveFirst(@, i)]

(***************************************************************************)
(* Lane change.                                                            *)
(***************************************************************************)
\* float('inf'): the gap when no vehicle is ahead or behind
Inf == 1000000

\* gap_ahead = va.x - va.length - veh.x in the list of the target lane
GapAhead(vf, list, i) ==
  LET va == NearestAhead(vf, list, vf[i].x)
  IN  IF va = 0 THEN Inf
      ELSE vf[va].x - Length(variant, vf[va].type) - vf[i].x

\* gap_behind = veh.x - (vb.x + vb.length) in the list of the target lane
GapBehind(vf, list, i) ==
  LET vb == NearestBehind(vf, list, vf[i].x)
  IN  IF vb = 0 THEN Inf
      ELSE vf[i].x - (vf[vb].x + Length(variant, vf[vb].type))

\* gap > max(MIN_GAP, v * SAFE_TIME_HEADWAY / 2)
ExceedsHalfHeadway(gap, v) ==
  gap > MIN_GAP /\ gap * 20 > v * SAFE_TIME_HEADWAY

\* the clearance without its headway term
ExceedsMinGap(gap, v) == gap > MIN_GAP

\* gap > max(MIN_GAP, v * SAFE_TIME_HEADWAY)
ExceedsHeadway(gap, v) ==
  gap > MIN_GAP /\ gap * 10 > v * SAFE_TIME_HEADWAY

\* the vehicle joins the target list without leaving the list of its lane
MoveVehicleKeepSource(vf, ln, i, target) ==
  LET vf2 == [vf EXCEPT ![i].lane = target]
  IN  [vf |-> vf2, ln |-> [ln EXCEPT ![target + 1] = SortByX(vf2, Append(@, i))],
       ok |-> TRUE]

\* the move in which the vehicle ahead in the target lane gives way: it is
\* slowed to the speed of the vehicle that comes in
MoveVehicleYield(vf, ln, i, target) ==
  LET src == vf[i].lane
      a == NearestAhead(vf, ln[target + 1], vf[i].x)
      vf1 == [vf EXCEPT ![i].lane = target]
      vf2 == IF a = 0 THEN vf1 ELSE [vf1 EXCEPT ![a].v = Min(@, vf[i].v)]
      ln1 == [ln EXCEPT ![src + 1] = RemoveFirst(@, i)]
      ln2 == [ln1 EXCEPT ![target + 1] = SortByX(vf2, Append(@, i))]
  IN  [vf |-> vf2, ln |-> ln2, ok |-> TRUE]

\* the vehicle leaves its lane list and joins the target list, which is sorted
MoveVehicle(vf, ln, i, target) ==
  LET src == vf[i].lane
      vf2 == [vf EXCEPT ![i].lane = target]
      ln1 == [ln EXCEPT ![src + 1] = RemoveFirst(@, i)]
      ln2 == [ln1 EXCEPT ![target + 1] = SortByX(vf2, Append(@, i))]
  IN  [vf |-> vf2, ln |-> ln2, ok |-> TRUE]

\* atascos.py: the move of try_change_lane also sorts the lane that was left
MoveVehicleAtascos(vf, ln, i, target) ==
  LET m == MoveVehicle(vf, ln, i, target)
      src == vf[i].lane
  IN  [m EXCEPT !.ln = [m.ln EXCEPT ![src + 1] = SortByX(m.vf, @)]]

\* atascos.py: one offset of try_change_lane is taken
AtascosAdmissible(vf, ln, i, target) ==
  /\ target >= 0
  /\ target < NUM_LANES
  /\ ExceedsHalfHeadway(GapAhead(vf, ln[target + 1], i), vf[i].v)
  /\ ExceedsHalfHeadway(GapBehind(vf, ln[target + 1], i), vf[i].v)

\* the two offsets examined in the order +1, then -1
TryPlusFirst(vf, ln, i) ==
  LET l == vf[i].lane
  IN  IF AtascosAdmissible(vf, ln, i, l + 1) THEN MoveVehicleAtascos(vf, ln, i, l + 1)
      ELSE IF AtascosAdmissible(vf, ln, i, l - 1) THEN MoveVehicleAtascos(vf, ln, i, l - 1)
      ELSE [vf |-> vf, ln |-> ln, ok |-> FALSE]

\* atascos.py Highway.try_change_lane: offset -1, then +1
try_change_lane(vf, ln, i) ==
  LET l == vf[i].lane
  IN  IF AtascosAdmissible(vf, ln, i, l - 1) THEN MoveVehicleAtascos(vf, ln, i, l - 1)
      ELSE IF AtascosAdmissible(vf, ln, i, l + 1) THEN MoveVehicleAtascos(vf, ln, i, l + 1)
      ELSE [vf |-> vf, ln |-> ln, ok |-> FALSE]

\* trafico.py: one offset of try_lane_change is taken
TraficoAdmissible(vf, ln, i, target) ==
  /\ target >= 0
  /\ target < NUM_LANES
  /\ ExceedsHalfHeadway(GapAhead(vf, ln[target + 1], i), vf[i].v)
  /\ ExceedsHalfHeadway(GapBehind(vf, ln[target + 1], i), vf[i].v)
  /\ LET va == NearestAhead(vf, ln[target + 1], vf[i].x)
     IN  ~(va # 0 /\ Priority(variant, vf[i].type) < Priority(variant, vf[va].type))

\* trafico.py Highway.try_lane_change
trafico_try_lane_change(vf, ln, i) ==
  LET l == vf[i].lane
  IN  IF TraficoAdmissible(vf, ln, i, l - 1) THEN MoveVehicle(vf, ln, i, l - 1)
      ELSE IF TraficoAdmissible(vf, ln, i, l + 1) THEN MoveVehicle(vf, ln, i, l + 1)
      ELSE [vf |-> vf, ln |-> ln, ok |-> FALSE]

\* traff.py: one offset of try_lane_change is taken
TraffAdmissible(vf, ln, i, target) ==
  /\ target >= 0
  /\ target < NUM_LANES
  /\ LET ga == GapAhead(vf, ln[target + 1], i)
         gb == GapBehind(vf, ln[target + 1], i)
         va == NearestAhead(vf, ln[target + 1], vf[i].x)
     IN  \/ vf[i].type = "ambulance" /\ ga > MIN_GAP /\ gb > MIN_GAP
         \/ /\ ExceedsHeadway(ga, vf[i].v)
            /\ ExceedsHeadway(gb, vf[i].v)
            /\ ~(va # 0 /\ Priority(variant, vf[va].type) > Priority(variant, vf[i].type))

\* traff.py Highway.try_lane_change with Highway._move_vehicle
traff_try_lane_change(vf, ln, i) ==
  LET l == vf[i].lane
  IN  IF TraffAdmissible(vf, ln, i, l - 1) THEN MoveVehicle(vf, ln, i, l - 1)
      ELSE IF TraffAdmissible(vf, ln, i, l + 1) THEN MoveVehicle(vf, ln, i, l + 1)
      ELSE [vf |-> vf, ln |-> ln, ok |-> FALSE]

(***************************************************************************)
(* Car following.                                                          *)
(***************************************************************************)
\* gap = ahead.x - (veh.x + veh.length) of the car-following rule (Inf: no vehicle ahead)
FollowGap(vf, i, a) ==
  IF a = 0 THEN Inf ELSE vf[a].x - (vf[i].x + Length(variant, vf[i].type))

\* gap / max(eps, SAFE_TIME_HEADWAY)
SafeSpeed(gap) == (gap * 10) \div SAFE_TIME_HEADWAY

\* the car-following rule without its ceiling
FollowSpeedNoCeiling(vf, i, a, top, acc, dec) ==
  LET v == vf[i].v
  IN  IF a # 0
      THEN LET target_v == SafeSpeed(FollowGap(vf, i, a))
           IN  IF v > target_v THEN v - Min(v - target_v, dec)
               ELSE v + Min(target_v - v, acc)
      ELSE v + acc

\* the speed after the car-following rule: a is the vehicle ahead (0: none),
\* top the ceiling, acc and dec the speed gained or lost in one step
FollowSpeed(vf, i, a, top, acc, dec) ==
  LET v == vf[i].v
  IN  IF a # 0
      THEN LET gap == FollowGap(vf, i, a)
               target_v == Min(top, SafeSpeed(gap))
           IN  IF v > target_v THEN v - Min(v - target_v, dec)
               ELSE v + Min(target_v - v, acc)
      ELSE v + Min(top - v, acc)

\* random slowdown: veh.v = max(0.0, veh.v - 3.0)
Slowdown(v, slow) == IF slow THEN Max(0, v - SLOWDOWN_DEC) ELSE v

\* veh.x += veh.v * dt, dt in tenths of a second
Integrate(x, v, d) == x + (v * d) \div 10

\* the exit check marking the vehicle and leaving it in its lane list
FinishKeepInLane(vf, ln, i, now) ==
  IF vf[i].x >= ROAD_LENGTH_M
  THEN [vf |-> [vf EXCEPT ![i].st = "finished", ![i].exit_time = now], ln |-> ln]
  ELSE [vf |-> vf, ln |-> ln]

\* the exit check at the end of a vehicle's update
Finish(vf, ln, i, now) ==
  IF vf[i].x >= ROAD_LENGTH_M
  THEN [vf |-> [vf EXCEPT ![i].st = "finished", ![i].exit_time = now],
        ln |-> remove_vehicle(vf, ln, i)]
  ELSE [vf |-> vf, ln |-> ln]

\* what one vehicle's update leaves: the vehicles, the lane lists, the gap the
\* car-following rule used, whether the vehicle changed lane, whether a lane
\* change was attempted and the speed the attempt was made with
StepResult(f, gap, changed, tried, vdec) ==
  [vf |-> f.vf, ln |-> f.ln, gap |-> gap, changed |-> changed, tried |-> tried,
   vdec |-> vdec]

\* atascos.py run_simulation: lines 159-198 for one vehicle of the snapshot
AtascosUpdate(vf, ln, i, slow, now) ==
  LET a0 == vehicle_ahead(vf, ln, i)
      dist == vf[a0].x - (vf[i].x + Length(variant, vf[i].type))
      trig == /\ a0 # 0
              /\ \/ dist * 10 < vf[i].v * SAFE_TIME_HEADWAY + MIN_GAP * 10
                 \/ vf[a0].v * 10 < vf[i].v * 8
      c == IF trig THEN try_change_lane(vf, ln, i)
           ELSE [vf |-> vf, ln |-> ln, ok |-> FALSE]
      a1 == vehicle_ahead(c.vf, c.ln, i)
      v1 == FollowSpeed(c.vf, i, a1, MAX_SPEED, (ACCEL * dt) \div 10, (DECEL_MAX * dt) \div 10)
      v2 == Slowdown(v1, slow)
      x2 == Integrate(vf[i].x, v2, dt)
      vf2 == [c.vf EXCEPT ![i].v = v2, ![i].x = x2]
  IN  StepResult(Finish(vf2, c.ln, i, now), FollowGap(c.vf, i, a1), c.ok, trig, vf[i].v)

\* trafico.py run_sim: lines 177-212 for one vehicle of the snapshot
TraficoUpdate(vf, ln, i, slow, now) ==
  LET a0 == vehicle_ahead(vf, ln, i)
      dist == vf[a0].x - (vf[i].x + Length(variant, vf[i].type))
      trig == a0 # 0 /\ dist * 10 < vf[i].v * SAFE_TIME_HEADWAY
      c == IF trig THEN trafico_try_lane_change(vf, ln, i)
           ELSE [vf |-> vf, ln |-> ln, ok |-> FALSE]
      a1 == vehicle_ahead(c.vf, c.ln, i)
      top == ClassSpeed(variant, vf[i].type)
      v1 == FollowSpeed(c.vf, i, a1, top, (ACCEL * dt) \div 10, (DECEL_MAX * dt) \div 10)
      v2 == Slowdown(v1, slow)
      x2 == Integrate(vf[i].x, v2, dt)
      vf2 == [c.vf EXCEPT ![i].v = v2, ![i].x = x2]
  IN  StepResult(Finish(vf2, c.ln, i, now), FollowGap(c.vf, i, a1), c.ok, trig, vf[i].v)

\* traff.py run_pygame_sim: lines 255-288 for one vehicle of the snapshot
TraffUpdate(vf, ln, i, slow, now, d) ==
  LET a0 == vehicle_ahead(vf, ln, i)
      top == Min(ClassSpeed(variant, vf[i].type), LANE_SPEED_MS(vf[i].lane))
      v1 == FollowSpeed(vf, i, a0, top, (Accel(variant, vf[i].type) * d) \div 10,
                        (DECEL_MAX * d) \div 10)
      v2 == Slowdown(v1, slow)
      vf1 == [vf EXCEPT ![i].v = v2]
      c == traff_try_lane_change(vf1, ln, i)
      x2 == Integrate(vf[i].x, v2, d)
      vf2 == [c.vf EXCEPT ![i].x = x2]
  IN  StepResult(Finish(vf2, c.ln, i, now), FollowGap(vf, i, a0), c.ok, TRUE, v2)

(***************************************************************************)
(* Entry queues and admission.                                             *)
(***************************************************************************)
RECURSIVE InsertByPriority(_, _, _)
\* vehicle e placed after every vehicle whose priority is >= its own
InsertByPriority(vf, s, e) ==
  IF s = <<>> THEN <<e>>
  ELSE IF Priority(variant, vf[s[Len(s)]].type) >= Priority(variant, vf[e].type)
       THEN Append(s, e)
  ELSE Append(InsertByPriority(vf, SubSeq(s, 1, Len(s) - 1), e), s[Len(s)])

\* the queue left in the order of arrival
KeepArrivalOrder(vf, s) == s

RECURSIVE SortByPriority(_, _)
\* queues[lane].sort(key=lambda v: v.priority, reverse=True): stable, descending
SortByPriority(vf, s) ==
  IF s = <<>> THEN <<>>
  ELSE InsertByPriority(vf, SortByPriority(vf, SubSeq(s, 1, Len(s) - 1)), s[Len(s)])

RECURSIVE InsertEntryAscending(_, _)
\* queue entry e placed after every entry whose priority is <= its own
InsertEntryAscending(s, e) ==
  IF s = <<>> THEN <<e>>
  ELSE IF Priority(variant, s[Len(s)].type) <= Priority(variant, e.type)
       THEN Append(s, e)
  ELSE Append(InsertEntryAscending(SubSeq(s, 1, Len(s) - 1), e), s[Len(s)])

RECURSIVE SortEntriesAscending(_)
\* the entries sorted by priority without reverse=True: lowest rank first
SortEntriesAscending(s) ==
  IF s = <<>> THEN <<>>
  ELSE InsertEntryAscending(SortEntriesAscending(SubSeq(s, 1, Len(s) - 1)), s[Len(s)])

RECURSIVE InsertEntry(_, _)
\* queue entry e placed after every entry whose priority is >= its own
InsertEntry(s, e) ==
  IF s = <<>> THEN <<e>>
  ELSE IF Priority(variant, s[Len(s)].type) >= Priority(variant, e.type)
       THEN Append(s, e)
  ELSE Append(InsertEntry(SubSeq(s, 1, Len(s) - 1), e), s[Len(s)])

RECURSIVE SortEntries(_)
\* sorted(list(entry_queue), key=priority, reverse=True): stable, descending
SortEntries(s) ==
  IF s = <<>> THEN <<>>
  ELSE InsertEntry(SortEntries(SubSeq(s, 1, Len(s) - 1)), s[Len(s)])

\* atascos.py line 152: the entry test of the admission step
AtascosCanEnter(vf, lane_list) ==
  \/ lane_list = <<>>
  \/ vf[lane_list[1]].x - VEHICLE_LENGTH > MIN_GAP + VEHICLE_LENGTH

\* smallest position in a non-empty lane list: min(lane_list, key=x).x
FirstX(vf, lane_list) ==
  LET k == CHOOSE k \in 1 .. Len(lane_list) :
             \A j \in 1 .. Len(lane_list) : vf[lane_list[k]].x <= vf[lane_list[j]].x
  IN  vf[lane_list[k]].x

\* traff.py Highway.can_insert_at_start
can_insert_at_start(vf, lane_list, veh_length) ==
  \/ lane_list = <<>>
  \/ FirstX(vf, lane_list) > veh_length + MIN_GAP

\* trafico.py lines 156-164: the entry test of the arrival step
TraficoCanEnter(vf, lane_list) ==
  \/ lane_list = <<>>
  \/ FirstX(vf, lane_list) > VEHICLE_LENGTH + MIN_GAP

\* the ids of the active vehicles
ActiveIds(vf) == {i \in DOMAIN vf : vf[i].st = "active"}

RECURSIVE Cursor(_, _)
\* the update loop reaching lane l: the first lane from l on that holds a
\* vehicle, with the snapshot list(highway.lanes[lane]) taken at that moment
Cursor(ln, l) ==
  IF l >= NUM_LANES THEN [lane |-> NUM_LANES, todo |-> <<>>]
  ELSE IF ln[l + 1] # <<>> THEN [lane |-> l, todo |-> ln[l + 1]]
  ELSE Cursor(ln, l + 1)

\* the loop after the head of the snapshot was updated
Advance(ln, l, rest) ==
  IF rest # <<>> THEN [lane |-> l, todo |-> rest] ELSE Cursor(ln, l + 1)

\* what a lane-change attempt of vehicle i sees in the lane target: whether
\* the lane exists, the two gaps and the nearest vehicle ahead (0: none)
TargetView(vf, ln, i, target) ==
  IF target < 0 \/ target >= NUM_LANES
  THEN [inr |-> FALSE, ga |-> Inf, gb |-> Inf, va |-> 0]
  ELSE [inr |-> TRUE, ga |-> GapAhead(vf, ln[target + 1], i),
        gb |-> GapBehind(vf, ln[target + 1], i),
        va |-> NearestAhead(vf, ln[target + 1], vf[i].x)]

NoView == [inr |-> FALSE, ga |-> Inf, gb |-> Inf, va |-> 0]

\* no vehicle was updated yet in this tick
NoLast == [id |-> 0, x0 |-> 0, x1 |-> 0, v0 |-> 0, v1 |-> 0, gap |-> Inf,
           lane0 |-> 0, lane1 |-> 0, changed |-> FALSE, tried |-> FALSE,
           vdec |-> 0, ahead0 |-> 0, m |-> NoView, p |-> NoView, lists0 |-> <<>>]

\* the record of the update of vehicle i: the vehicle before and after, the
\* vehicle ahead of it when the update started, the lanes -1 and +1 as the
\* lane-change attempt saw them, and the lane lists before the update
LastOf(i, vf0, ln0, r) ==
  [id |-> i, x0 |-> vf0[i].x, x1 |-> r.vf[i].x, v0 |-> vf0[i].v, v1 |-> r.vf[i].v,
   gap |-> r.gap, lane0 |-> vf0[i].lane, lane1 |-> r.vf[i].lane, changed |-> r.changed,
   tried |-> r.tried, vdec |-> r.vdec, ahead0 |-> vehicle_ahead(vf0, ln0, i),
   m |-> TargetView(vf0, ln0, i, vf0[i].lane - 1),
   p |-> TargetView(vf0, ln0, i, vf0[i].lane + 1), lists0 |-> ln0]

EmptyLanes == [l \in 1 .. NUM_LANES |-> <<>>]

(***************************************************************************)
(* atascos.py run_simulation.                                              *)
(***************************************************************************)
\* the lanes drawn with the upper end one too far
ArrivalLanesInclusive == 0 .. NUM_LANES

\* line 140: random.randint(0, NUM_LANES-1)
ArrivalLanes == 0 .. NUM_LANES - 1

\* lines 138-143: an arrival is due
AtascosArrive ==
  /\ variant = "atascos"
  /\ pc = "arrive"
  /\ t >= next_arrival
  /\ \E ty \in VehTypes(variant), l \in ArrivalLanes :
       /\ veh' = veh @@ (next_id :> NewVehicle(ty, l, t, "queued", arrived + 1))
       /\ queues' = [queues EXCEPT ![l + 1] = Append(@, next_id)]
  /\ next_id' = next_id + 1
  /\ next_arrival' = next_arrival + ArrivalInterval(variant)
  /\ arrival_times' = Append(arrival_times, t)
  /\ arrived' = arrived + 1
  /\ upd' = upd @@ (next_id :> 0)
  /\ promoted' = EmptyLanes
  /\ pc' = "admit"
  /\ UNCHANGED <<horizon, opened, ticks, rows, uncapped, run, first_stats, total_speed, speed_samples, stats_flow,
                 speeds_finished, vehicles, finished, variant, t, dt, lanes, entry_queue, lane_idx, todo, slows,
                 active0, last, dropped>>

\* no arrival is due in this tick
AtascosNoArrival ==
  /\ variant = "atascos"
  /\ pc = "arrive"
  /\ t < next_arrival
  /\ promoted' = EmptyLanes
  /\ pc' = "admit"
  /\ UNCHANGED <<horizon, opened, ticks, rows, uncapped, run, first_stats, arrival_times, total_speed, speed_samples, stats_flow,
                 speeds_finished, vehicles, finished, variant, t, dt, next_arrival, next_id, veh, lanes, queues,
                 entry_queue, lane_idx, todo, slows, upd, active0, last,
                 arrived, dropped>>

\* the admission of one lane taking the first two vehicles of the queue
AdmitTwo(vf, ln, qs, l) ==
  LET sq == SortByPriority(vf, qs[l + 1])
      ok == Len(sq) >= 2 /\ AtascosCanEnter(vf, ln[l + 1])
  IN  [q |-> IF ok THEN Tail(Tail(sq)) ELSE sq,
       lane |-> IF ok THEN SortByX(vf, ln[l + 1] \o <<sq[1], sq[2]>>) ELSE ln[l + 1],
       got |-> IF ok THEN <<sq[1], sq[2]>> ELSE <<>>]

\* lines 146-154 for one lane: the queue sorted, and its head admitted or not
AtascosAdmitLane(vf, ln, qs, l) ==
  LET sq == SortByPriority(vf, qs[l + 1])
      ok == sq # <<>> /\ AtascosCanEnter(vf, ln[l + 1])
      h == sq[1]
  IN  [q |-> IF ok THEN Tail(sq) ELSE sq,
       lane |-> IF ok THEN add_vehicle(vf, ln, h)[l + 1] ELSE ln[l + 1],
       got |-> IF ok THEN <<h>> ELSE <<>>]

\* lines 146-154: the admission step over the lanes
AtascosAdmit ==
  /\ variant = "atascos"
  /\ pc = "admit"
  /\ LET res == [l \in 1 .. NUM_LANES |-> AtascosAdmitLane(veh, lanes, queues, l - 1)]
         ln2 == [l \in 1 .. NUM_LANES |-> res[l].lane]
         got == UNION {{res[l].got[k] : k \in 1 .. Len(res[l].got)} : l \in 1 .. NUM_LANES}
         vf2 == [i \in DOMAIN veh |-> IF i \in got THEN [veh[i] EXCEPT !.st = "active"]
                                      ELSE veh[i]]
         cur == Cursor(ln2, 0)
     IN  /\ queues' = [l \in 1 .. NUM_LANES |-> res[l].q]
         /\ lanes' = ln2
         /\ veh' = vf2
         /\ promoted' = [l \in 1 .. NUM_LANES |-> res[l].got]
         /\ active0' = ActiveIds(vf2)
         /\ lane_idx' = cur.lane
         /\ todo' = cur.todo
         /\ pc' = IF cur.lane = NUM_LANES THEN "end" ELSE "update"
  /\ upd' = [i \in DOMAIN veh |-> 0]
  /\ rows' = [i \in DOMAIN veh |-> 0]
  /\ last' = NoLast
  /\ UNCHANGED <<horizon, opened, ticks, uncapped, run, first_stats, arrival_times, total_speed, speed_samples, stats_flow,
                 speeds_finished, vehicles, finished, variant, t, dt, next_arrival, next_id, entry_queue, slows,
                 arrived, dropped>>

\* lines_written: the header row and one row per speed sample
lines_written == speed_samples + 1

\* lines 157-198: the update of the next vehicle of the snapshot
AtascosStep ==
  /\ variant = "atascos"
  /\ pc = "update"
  /\ \E slow \in BOOLEAN :
       /\ slow => slows < MaxSlow
       /\ slows' = IF slow THEN slows + 1 ELSE slows
       /\ LET i == Head(todo)
              r == AtascosUpdate(veh, lanes, i, slow, t)
              cur == Advance(r.ln, lane_idx, Tail(todo))
          IN  /\ veh' = r.vf
              /\ lanes' = r.ln
              /\ last' = LastOf(i, veh, lanes, r)
              /\ total_speed' = IF lines_written < MAX_LINES
                                 THEN total_speed + r.vf[i].v ELSE total_speed
              /\ speed_samples' = IF lines_written < MAX_LINES
                                   THEN speed_samples + 1 ELSE speed_samples
              /\ rows' = IF lines_written < MAX_LINES
                          THEN [rows EXCEPT ![i] = @ + 1] ELSE rows
              /\ uncapped' = [total |-> uncapped.total + r.vf[i].v,
                              samples |-> uncapped.samples + 1]
              /\ stats_flow' = IF r.vf[i].st = "finished" THEN stats_flow + 1
                                ELSE stats_flow
              /\ upd' = [upd EXCEPT ![i] = @ + 1]
              /\ lane_idx' = cur.lane
              /\ todo' = cur.todo
              /\ pc' = IF cur.lane = NUM_LANES THEN "end" ELSE "update"
  /\ UNCHANGED <<horizon, opened, ticks, run, first_stats, arrival_times, speeds_finished, vehicles,
                 finished, variant, t, dt, next_arrival, next_id, queues,
                 entry_queue, active0, promoted, arrived, dropped>>

\* the ticks after which a run that cannot reach its horizon is left alone
TickCap == MaxTicks + 1

\* the loop written as `while t <= SIM_SECONDS`
EndTickInclusive ==
  /\ variant \in {"atascos", "trafico"}
  /\ pc = "end"
  /\ ticks < TickCap
  /\ t' = t + dt
  /\ ticks' = ticks + 1
  /\ pc' = IF t + dt <= horizon THEN "arrive" ELSE "done"
  /\ UNCHANGED <<horizon, opened, rows, uncapped, run, first_stats, arrival_times, total_speed,
                 speed_samples, stats_flow, speeds_finished, vehicles, finished,
                 variant, dt, next_arrival, next_id, veh, lanes, queues,
                 entry_queue, lane_idx, todo, slows, upd, active0, promoted,
                 last, arrived, dropped>>

\* line 200 and the loop test of line 136, with DT and SIM_SECONDS as the run
\* was configured
EndTick ==
  /\ variant \in {"atascos", "trafico"}
  /\ pc = "end"
  /\ ticks < TickCap
  /\ t' = t + dt
  /\ ticks' = ticks + 1
  /\ pc' = IF t + dt < horizon THEN "arrive" ELSE "done"
  /\ UNCHANGED <<horizon, opened, rows, uncapped, run, first_stats, arrival_times, total_speed, speed_samples, stats_flow,
                 speeds_finished, vehicles, finished, variant, dt, next_arrival, next_id, veh, lanes, queues,
                 entry_queue, lane_idx, todo, slows, upd, active0, promoted,
                 last, arrived, dropped>>

(***************************************************************************)
(* trafico.py run_sim.                                                     *)
(***************************************************************************)
\* the orders random.shuffle can leave the lanes in
LaneOrders ==
  {o \in [1 .. NUM_LANES -> 0 .. NUM_LANES - 1] :
     \A a, b \in 1 .. NUM_LANES : a # b => o[a] # o[b]}

\* the first lane of the order whose entry test passes; NUM_LANES when none
FirstFree(vf, ln, o) ==
  LET ok == {k \in 1 .. NUM_LANES : TraficoCanEnter(vf, ln[o[k] + 1])}
  IN  IF ok = {} THEN NUM_LANES
      ELSE o[CHOOSE k \in ok : \A j \in ok : k <= j]

\* lines 147-170: an arrival is due; the vehicle is created in the first lane
\* of the shuffled order that has room, and in no lane when none has
TraficoArrive ==
  /\ variant = "trafico"
  /\ pc = "arrive"
  /\ t >= next_arrival
  /\ \E ty \in VehTypes(variant), o \in LaneOrders :
       LET l == FirstFree(veh, lanes, o)
           vf2 == IF l < NUM_LANES
                  THEN veh @@ (next_id :> NewVehicle(ty, l, t, "active", arrived + 1))
                  ELSE veh
           ln2 == IF l < NUM_LANES THEN add_vehicle(vf2, lanes, next_id) ELSE lanes
           cur == Cursor(ln2, 0)
       IN  /\ veh' = vf2
           /\ lanes' = ln2
           /\ next_id' = IF l < NUM_LANES THEN next_id + 1 ELSE next_id
           /\ dropped' = IF l < NUM_LANES THEN dropped ELSE dropped + 1
           /\ promoted' = [k \in 1 .. NUM_LANES |->
                             IF k = l + 1 THEN <<next_id>> ELSE <<>>]
           /\ active0' = ActiveIds(vf2)
           /\ upd' = [i \in DOMAIN vf2 |-> 0]
           /\ lane_idx' = cur.lane
           /\ todo' = cur.todo
           /\ pc' = IF cur.lane = NUM_LANES THEN "end" ELSE "update"
  /\ next_arrival' = next_arrival + ArrivalInterval(variant)
  /\ arrival_times' = Append(arrival_times, t)
  /\ arrived' = arrived + 1
  /\ last' = NoLast
  /\ UNCHANGED <<horizon, opened, ticks, rows, uncapped, run, first_stats, total_speed, speed_samples, stats_flow,
                 speeds_finished, vehicles, finished, variant, t, dt, queues, entry_queue, slows>>

\* no arrival is due in this tick
TraficoNoArrival ==
  /\ variant = "trafico"
  /\ pc = "arrive"
  /\ t < next_arrival
  /\ LET cur == Cursor(lanes, 0)
     IN  /\ lane_idx' = cur.lane
         /\ todo' = cur.todo
         /\ pc' = IF cur.lane = NUM_LANES THEN "end" ELSE "update"
  /\ promoted' = EmptyLanes
  /\ active0' = ActiveIds(veh)
  /\ upd' = [i \in DOMAIN veh |-> 0]
  /\ last' = NoLast
  /\ UNCHANGED <<horizon, opened, ticks, rows, uncapped, run, first_stats, arrival_times, total_speed, speed_samples, stats_flow,
                 speeds_finished, vehicles, finished, variant, t, dt, next_arrival, next_id, veh, lanes, queues,
                 entry_queue, slows, arrived, dropped>>

\* lines 175-212: the update of the next vehicle of the snapshot
TraficoStep ==
  /\ variant = "trafico"
  /\ pc = "update"
  /\ \E slow \in BOOLEAN :
       /\ slow => slows < MaxSlow
       /\ slows' = IF slow THEN slows + 1 ELSE slows
       /\ LET i == Head(todo)
              r == TraficoUpdate(veh, lanes, i, slow, t)
              cur == Advance(r.ln, lane_idx, Tail(todo))
          IN  /\ veh' = r.vf
              /\ lanes' = r.ln
              /\ last' = LastOf(i, veh, lanes, r)
              /\ upd' = [upd EXCEPT ![i] = @ + 1]
              /\ lane_idx' = cur.lane
              /\ todo' = cur.todo
              /\ pc' = IF cur.lane = NUM_LANES THEN "end" ELSE "update"
  /\ UNCHANGED <<horizon, opened, ticks, rows, uncapped, run, first_stats, arrival_times, total_speed, speed_samples, stats_flow,
                 speeds_finished, vehicles, finished, variant, t, dt, next_arrival, next_id, queues, entry_queue,
                 active0, promoted, arrived, dropped>>

(***************************************************************************)
(* traff.py run_pygame_sim.                                                *)
(***************************************************************************)
\* sim_dt = real_dt * SPEEDUP: a frame of 16 or 17 ms at FPS = 60, times 100
DtSet == {16, 17}

\* lines 218-224: a frame starts and the simulated time advances
TraffFrame ==
  /\ variant = "traff"
  /\ pc = "frame"
  /\ \E d \in DtSet : dt' = d /\ t' = t + d
  /\ promoted' = EmptyLanes
  /\ pc' = "arrive"
  /\ UNCHANGED <<horizon, opened, ticks, rows, uncapped, run, first_stats, arrival_times, total_speed, speed_samples, stats_flow,
                 speeds_finished, vehicles, finished, variant, next_arrival, next_id, veh, lanes, queues, entry_queue,
                 lane_idx, todo, slows, upd, active0, last, arrived, dropped>>

\* lines 227-230: one turn of the arrival loop
TraffArrive ==
  /\ variant = "traff"
  /\ pc = "arrive"
  /\ t >= next_arrival
  /\ t <= SIM_SECONDS
  /\ \E ty \in VehTypes(variant) :
       entry_queue' = Append(entry_queue, [type |-> ty, te |-> t, arr |-> arrived + 1])
  /\ next_arrival' = next_arrival + ArrivalInterval(variant)
  /\ arrival_times' = Append(arrival_times, t)
  /\ arrived' = arrived + 1
  /\ UNCHANGED <<horizon, opened, ticks, rows, uncapped, run, first_stats, total_speed, speed_samples, stats_flow,
                 speeds_finished, vehicles, finished, variant, pc, t, dt, next_id, veh, lanes, queues, lane_idx, todo,
                 slows, upd, active0, promoted, last, dropped>>

\* the first lane of 0, 1, 2 that can take a vehicle of this length; NUM_LANES when none
FirstLane(vf, ln, veh_length) ==
  LET ok == {l \in 0 .. NUM_LANES - 1 : can_insert_at_start(vf, ln[l + 1], veh_length)}
  IN  IF ok = {} THEN NUM_LANES ELSE CHOOSE l \in ok : \A j \in ok : l <= j

RECURSIVE RemoveEntry(_, _)
\* entry_queue.remove((vt, tt)) for the first entry of that type and time
RemoveEntry(s, e) ==
  IF s = <<>> THEN <<>>
  ELSE IF Head(s).type = e.type /\ Head(s).te = e.te THEN Tail(s)
  ELSE <<Head(s)>> \o RemoveEntry(Tail(s), e)

\* lines 227 and 233-249: the arrival loop is over; the entry of highest
\* priority is inserted in the first lane that has room for it
TraffAdmit ==
  /\ variant = "traff"
  /\ pc = "arrive"
  /\ ~(t >= next_arrival /\ t <= SIM_SECONDS)
  /\ LET first == SortEntries(entry_queue)[1]
         l == IF entry_queue = <<>> THEN NUM_LANES
              ELSE FirstLane(veh, lanes, Length(variant, first.type))
         ins == l < NUM_LANES
         vf2 == IF ins
                THEN veh @@ (next_id :> NewVehicle(first.type, l, first.te, "active", first.arr))
                ELSE veh
         ln2 == IF ins THEN add_vehicle(vf2, lanes, next_id) ELSE lanes
         cur == Cursor(ln2, 0)
     IN  /\ veh' = vf2
         /\ lanes' = ln2
         /\ next_id' = IF ins THEN next_id + 1 ELSE next_id
         /\ entry_queue' = IF ins THEN RemoveEntry(entry_queue, first) ELSE entry_queue
         /\ promoted' = [k \in 1 .. NUM_LANES |-> IF k = l + 1 THEN <<next_id>> ELSE <<>>]
         /\ active0' = ActiveIds(vf2)
         /\ upd' = [i \in DOMAIN vf2 |-> 0]
         /\ lane_idx' = cur.lane
         /\ todo' = cur.todo
         /\ pc' = IF cur.lane = NUM_LANES THEN "end" ELSE "update"
  /\ last' = NoLast
  /\ UNCHANGED <<horizon, opened, ticks, rows, uncapped, run, first_stats, arrival_times, total_speed, speed_samples, stats_flow,
                 speeds_finished, vehicles, finished, variant, t, dt, next_arrival, queues, slows, arrived, dropped>>

\* lines 253-288: the update of the next vehicle of the snapshot
TraffStep ==
  /\ variant = "traff"
  /\ pc = "update"
  /\ \E slow \in BOOLEAN :
       /\ slow => slows < MaxSlow
       /\ slows' = IF slow THEN slows + 1 ELSE slows
       /\ LET i == Head(todo)
              r == TraffUpdate(veh, lanes, i, slow, t, dt)
              cur == Advance(r.ln, lane_idx, Tail(todo))
          IN  /\ veh' = r.vf
              /\ lanes' = r.ln
              /\ last' = LastOf(i, veh, lanes, r)
              /\ upd' = [upd EXCEPT ![i] = @ + 1]
              /\ lane_idx' = cur.lane
              /\ todo' = cur.todo
              /\ pc' = IF cur.lane = NUM_LANES THEN "end" ELSE "update"
  /\ UNCHANGED <<horizon, opened, ticks, rows, uncapped, run, first_stats, arrival_times, total_speed, speed_samples, stats_flow,
                 speeds_finished, vehicles, finished, variant, t, dt, next_arrival, next_id, queues, entry_queue,
                 active0, promoted, arrived, dropped>>

\* lines 338-339: the frame ends; the loop stops once sim_time >= SIM_SECONDS
TraffEnd ==
  /\ variant = "traff"
  /\ pc = "end"
  /\ pc' = IF t >= SIM_SECONDS THEN "done" ELSE "frame"
  /\ ticks' = ticks + 1
  /\ UNCHANGED <<horizon, opened, rows, uncapped, run, first_stats, arrival_times, total_speed, speed_samples, stats_flow,
                 speeds_finished, vehicles, finished, variant, t, dt, next_arrival, next_id, veh, lanes, queues,
                 entry_queue, lane_idx, todo, slows, upd, active0, promoted,
                 last, arrived, dropped>>

(***************************************************************************)
(* a2.py A2Simulator: positions in units of 1/3600 km, speeds in km/h.     *)
(***************************************************************************)
\* road length of a2.py in units of 1/3600 km (ROAD_LENGTH scaled down)
A2RoadLen == 250

ROAD_LENGTH == A2RoadLen

\* speed limit of a lane in km/h
LANE_SPEED(l) == CASE l = 0 -> 90 [] l = 1 -> 100 [] OTHER -> 120

A2Types == {"coche", "camion", "ambulancia"}

\* the ends of the random.uniform ranges of Vehicle.__init__
A2Speeds(ty) ==
  CASE ty = "coche" -> {80, 120} [] ty = "camion" -> {70, 90} [] OTHER -> {110, 140}

A2Priority(ty) == CASE ty = "camion" -> 1 [] ty = "coche" -> 2 [] OTHER -> 3

\* Vehicle.update_speed_by_lane
update_speed_by_lane(w) ==
  IF w.speed > LANE_SPEED(w.lane) THEN [w EXCEPT !.speed = LANE_SPEED(w.lane)] ELSE w

\* Vehicle.move with dt = 1: position += speed * (dt / 3600.0)
move(w) ==
  LET u == update_speed_by_lane(w) IN [u EXCEPT !.position = @ + u.speed]

\* a comes strictly before b under key (position, priority), reverse=True
A2Before(a, b) ==
  \/ a.position > b.position
  \/ a.position = b.position /\ A2Priority(a.type) > A2Priority(b.type)

RECURSIVE A2Insert(_, _)
A2Insert(s, e) ==
  IF s = <<>> THEN <<e>>
  ELSE IF ~A2Before(e, s[Len(s)]) THEN Append(s, e)
  ELSE Append(A2Insert(SubSeq(s, 1, Len(s) - 1), e), s[Len(s)])

RECURSIVE A2Sort(_)
\* vehicles.sort(key=lambda x: (x.position, x.priority), reverse=True): stable
A2Sort(s) ==
  IF s = <<>> THEN <<>>
  ELSE A2Insert(A2Sort(SubSeq(s, 1, Len(s) - 1)), s[Len(s)])

\* A2Simulator.spawn_vehicles: nothing, or one new vehicle at position 0
A2Spawns ==
  {<<>>} \cup {<<[type |-> ty, position |-> 0, lane |-> l, speed |-> sp]>> :
                 ty \in A2Types, l \in 0 .. NUM_LANES - 1, sp \in {80, 70, 90, 110, 120, 140}}

\* A2Simulator.update_positions
update_positions(vs) == A2Sort([k \in 1 .. Len(vs) |-> move(vs[k])])

A2Remaining(w) == w.position < ROAD_LENGTH

\* A2Simulator.remove_finished: the vehicles that stay
remove_finished(vs) == SelectSeq(vs, A2Remaining)

\* A2Simulator.remove_finished: the counts per type
CountFinished(fin, vs) ==
  [ty \in A2Types |->
     fin[ty] + Cardinality({k \in 1 .. Len(vs) : vs[k].type = ty /\ ~A2Remaining(vs[k])})]

NoneFinished == [ty \in A2Types |-> 0]

\* the speeds of one type among the vehicles of vs that reached the road end
FinishedSpeeds(vs, ty) ==
  LET done == SelectSeq(vs, LAMBDA w : w.type = ty /\ ~A2Remaining(w))
  IN  [k \in 1 .. Len(done) |-> done[k].speed]

\* A2Simulator.remove_finished: the speeds kept per type
SpeedsFinished(sf, vs) == [ty \in A2Types |-> sf[ty] \o FinishedSpeeds(vs, ty)]

NoSpeeds == [ty \in A2Types |-> <<>>]

\* A2Simulator.run: one turn of the loop
A2Step ==
  /\ variant = "a2"
  /\ pc = "a2"
  /\ \E sp \in A2Spawns :
       /\ sp # <<>> => sp[1].speed \in A2Speeds(sp[1].type)
       /\ LET vs == update_positions(vehicles \o sp)
          IN  /\ vehicles' = remove_finished(vs)
              /\ finished' = CountFinished(finished, vs)
              /\ speeds_finished' = SpeedsFinished(speeds_finished, vs)
  /\ t' = t + DT
  /\ ticks' = ticks + 1
  /\ pc' = IF t + DT < SIM_SECONDS THEN "a2" ELSE "done"
  /\ UNCHANGED <<horizon, opened, rows, uncapped, run, first_stats, variant, dt, next_arrival, next_id, veh, lanes, queues,
                 entry_queue, lane_idx, todo, slows, upd, active0, promoted,
                 last, arrived, dropped, arrival_times, total_speed,
                 speed_samples, stats_flow>>

\* the speed samples of a run that has not sampled yet
NoSamples == [total |-> 0, samples |-> 0]

\* no run was completed before this one
NoStats ==
  [flow |-> 0, count |-> [ty \in VehTypes("atascos") |-> 0], total |-> 0,
   samples |-> 0]

\* the state in which each program starts its loop
Init ==
  /\ variant \in Variants
  /\ pc = CASE variant = "traff" -> "frame" [] variant = "a2" -> "a2" [] OTHER -> "arrive"
  /\ t = 0
  /\ dt = DT
  /\ next_arrival = 0
  /\ next_id = 1
  /\ veh = << >>
  /\ lanes = EmptyLanes
  /\ queues = EmptyLanes
  /\ entry_queue = << >>
  /\ lane_idx = 0
  /\ todo = << >>
  /\ slows = 0
  /\ upd = << >>
  /\ active0 = {}
  /\ promoted = EmptyLanes
  /\ last = NoLast
  /\ arrived = 0
  /\ dropped = 0
  /\ vehicles = << >>
  /\ arrival_times = << >>
  /\ total_speed = 0
  /\ speed_samples = 0
  /\ stats_flow = 0
  /\ speeds_finished = NoSpeeds
  /\ run = 1
  /\ first_stats = NoStats
  /\ rows = << >>
  /\ uncapped = NoSamples
  /\ ticks = 0
  /\ horizon = SIM_SECONDS
  /\ opened = TRUE
  /\ finished = NoneFinished

(***************************************************************************)
(* A run taken up in mid-course: standing traffic near the road start.     *)
(***************************************************************************)
\* positions of the standing vehicles, in dm
SceneXs == {50, 100}

SceneTypes == {"car"}

\* the places a standing vehicle can take, in the order of the vehicle ids
SceneSlots ==
  <<[lane |-> 0, x |-> 50], [lane |-> 0, x |-> 100], [lane |-> 1, x |-> 50],
    [lane |-> 1, x |-> 100], [lane |-> 2, x |-> 50], [lane |-> 2, x |-> 100]>>

\* the number of places taken among the first k
SceneCount(occ, k) == Cardinality({j \in 1 .. k : occ[j] # "none"})

\* the speed ceiling of a vehicle of class ty in lane l
Ceiling(vt, ty, l) ==
  CASE vt = "atascos" -> MAX_SPEED
    [] vt = "traff" -> Min(ClassSpeed(vt, ty), LANE_SPEED_MS(l))
    [] OTHER -> ClassSpeed(vt, ty)

\* the vehicles of a scene: ids by lane, then by position; all of them stand,
\* or all of them run at their ceiling
SceneVehicles(vt, occ, cruise) ==
  [i \in 1 .. SceneCount(occ, Len(SceneSlots)) |->
     LET k == CHOOSE j \in 1 .. Len(SceneSlots) :
                occ[j] # "none" /\ SceneCount(occ, j) = i
     IN  [type |-> occ[k], lane |-> SceneSlots[k].lane, x |-> SceneSlots[k].x,
          v |-> IF cruise THEN Ceiling(vt, occ[k], SceneSlots[k].lane) ELSE 0,
          entry_time |-> 0, exit_time |-> -1, st |-> "active", arr |-> i]]

\* the lane lists of a scene, each in order of position
SceneLanes(vf) ==
  [l \in 1 .. NUM_LANES |->
     SortByX(vf, SelectSeq([i \in 1 .. Len(vf) |-> i], LAMBDA i : vf[i].lane = l - 1))]

\* no two vehicles of a lane of the scene overlap
SceneClear(vt, vf) ==
  \A i, j \in DOMAIN vf :
    (i # j /\ vf[i].lane = vf[j].lane /\ vf[i].x <= vf[j].x)
      => vf[i].x + Length(vt, vf[i].type) < vf[j].x

\* a run taken up SceneTicks before its end, an arrival being due, with at most
\* SceneVeh cars near the road start, standing or running at their ceiling,
\* and, in atascos.py, possibly a car waiting in the queue of a lane that is
\* not empty
MidRun ==
  /\ variant \in Variants
  /\ pc = CASE variant = "traff" -> "frame" [] variant = "a2" -> "a2" [] OTHER -> "arrive"
  /\ t = SIM_SECONDS - SceneTicks * DT
  /\ dt = DT
  /\ next_arrival = t
  /\ \E occ \in [1 .. Len(SceneSlots) -> SceneTypes \cup {"none"}],
        q \in 0 .. NUM_LANES, cruise \in BOOLEAN :
       LET n == SceneCount(occ, Len(SceneSlots))
           vf == SceneVehicles(variant, occ, cruise)
           waiting == [type |-> "car", lane |-> q - 1, x |-> 0,
                       v |-> InitSpeed(variant, "car"), entry_time |-> 0,
                       exit_time |-> -1, st |-> "queued", arr |-> n + 1]
       IN  /\ n <= SceneVeh
           /\ variant = "a2" => n = 0
           /\ n = 0 => ~cruise
           /\ SceneClear(variant, vf)
           /\ q > 0 => variant = "atascos" /\ SceneLanes(vf)[q] # <<>>
           /\ lanes = SceneLanes(vf)
           /\ veh = IF q > 0 THEN Append(vf, waiting) ELSE vf
           /\ queues = [l \in 1 .. NUM_LANES |-> IF l = q THEN <<n + 1>> ELSE <<>>]
           /\ next_id = Len(veh) + 1
           /\ arrived = Len(veh)
           /\ upd = [i \in DOMAIN veh |-> 0]
  /\ entry_queue = << >>
  /\ lane_idx = 0
  /\ todo = << >>
  /\ slows = 0
  /\ active0 = {}
  /\ promoted = EmptyLanes
  /\ last = NoLast
  /\ dropped = 0
  /\ vehicles = << >>
  /\ arrival_times = [a \in 1 .. arrived |-> 0]
  /\ total_speed = 0
  /\ speed_samples = 0
  /\ stats_flow = 0
  /\ speeds_finished = NoSpeeds
  /\ run = 1
  /\ first_stats = NoStats
  /\ rows = << >>
  /\ uncapped = NoSamples
  /\ ticks = MaxTicks - SceneTicks
  /\ horizon = SIM_SECONDS
  /\ opened = TRUE
  /\ finished = NoneFinished

Next ==
  \/ AtascosArrive
  \/ AtascosNoArrival
  \/ AtascosAdmit
  \/ AtascosStep
  \/ EndTick
  \/ TraficoArrive
  \/ TraficoNoArrival
  \/ TraficoStep
  \/ TraffFrame
  \/ TraffArrive
  \/ TraffAdmit
  \/ TraffStep
  \/ TraffEnd
  \/ A2Step

Spec == Init /\ [][Next]_vars

\* a run from its start, or taken up in mid-course
SceneInit == Init \/ MidRun

SceneSpec == SceneInit /\ [][Next]_vars

(***************************************************************************)
(* Two runs of atascos.py in one process: run_simulation is called again   *)
(* after it returned.  random.seed(SEED) ran once, when the module was     *)
(* loaded, so the draws of the second run continue the stream of the       *)
(* first; Vehicle._next_id goes on counting.                               *)
(***************************************************************************)
\* the vehicles of one class that left the road in this run
FinishedCount(ty) ==
  Cardinality({i \in DOMAIN veh : veh[i].st = "finished" /\ veh[i].type = ty})

\* lines 119-129 at the second call: the locals of run_simulation start anew
Rerun ==
  /\ variant = "atascos"
  /\ pc = "done"
  /\ run = 1
  /\ run' = 2
  /\ first_stats' = [flow |-> stats_flow,
                     count |-> [ty \in VehTypes(variant) |-> FinishedCount(ty)],
                     total |-> total_speed, samples |-> speed_samples]
  /\ pc' = "arrive"
  /\ t' = 0
  /\ next_arrival' = 0
  /\ veh' = << >>
  /\ lanes' = EmptyLanes
  /\ queues' = EmptyLanes
  /\ lane_idx' = 0
  /\ todo' = << >>
  /\ slows' = 0
  /\ upd' = << >>
  /\ active0' = {}
  /\ promoted' = EmptyLanes
  /\ last' = NoLast
  /\ arrived' = 0
  /\ arrival_times' = << >>
  /\ total_speed' = 0
  /\ speed_samples' = 0
  /\ stats_flow' = 0
  /\ rows' = << >>
  /\ uncapped' = NoSamples
  /\ ticks' = 0
  /\ UNCHANGED <<horizon, opened, variant, dt, next_id, entry_queue, dropped, vehicles, finished,
                 speeds_finished>>

RerunInit == Init /\ variant = "atascos"

RerunNext ==
  \/ AtascosArrive
  \/ AtascosNoArrival
  \/ AtascosAdmit
  \/ AtascosStep
  \/ EndTick
  \/ Rerun

RerunSpec == RerunInit /\ [][RerunNext]_vars

(***************************************************************************)
(* A run of atascos.py or trafico.py from the call of its function, with   *)
(* DT and SIM_SECONDS as configured: positive, zero or negative.           *)
(***************************************************************************)
\* the values DT is configured with
ConfigTimesteps == {-DT, 0, DT}

\* the values SIM_SECONDS is configured with
ConfigHorizons == {-DT, 0, ConfigTicks * DT}

\* atascos.py lines 119-136: the locals are set, trajectories.csv is opened
\* and its header written, and the loop test is made for the first time
AtascosStart ==
  /\ variant = "atascos"
  /\ pc = "start"
  /\ opened' = TRUE
  /\ pc' = IF t < horizon THEN "arrive" ELSE "done"
  /\ UNCHANGED <<horizon, variant, t, dt, next_arrival, next_id, veh, lanes, queues,
                 entry_queue, lane_idx, todo, slows, upd, active0, promoted,
                 last, arrived, dropped, vehicles, finished, arrival_times,
                 total_speed, speed_samples, stats_flow, speeds_finished, run,
                 first_stats, rows, uncapped, ticks>>

\* trafico.py lines 127-142: the locals are set, the figure is opened and the
\* loop test is made for the first time
TraficoStart ==
  /\ variant = "trafico"
  /\ pc = "start"
  /\ opened' = TRUE
  /\ pc' = IF t < horizon THEN "arrive" ELSE "done"
  /\ UNCHANGED <<horizon, variant, t, dt, next_arrival, next_id, veh, lanes, queues,
                 entry_queue, lane_idx, todo, slows, upd, active0, promoted,
                 last, arrived, dropped, vehicles, finished, arrival_times,
                 total_speed, speed_samples, stats_flow, speeds_finished, run,
                 first_stats, rows, uncapped, ticks>>

\* the function is called: nothing was opened, created or run
ConfigInit ==
  /\ variant \in {"atascos", "trafico"}
  /\ pc = "start"
  /\ dt \in ConfigTimesteps
  /\ horizon \in ConfigHorizons
  /\ opened = FALSE
  /\ t = 0
  /\ next_arrival = 0
  /\ next_id = 1
  /\ veh = << >>
  /\ lanes = EmptyLanes
  /\ queues = EmptyLanes
  /\ entry_queue = << >>
  /\ lane_idx = 0
  /\ todo = << >>
  /\ slows = 0
  /\ upd = << >>
  /\ active0 = {}
  /\ promoted = EmptyLanes
  /\ last = NoLast
  /\ arrived = 0
  /\ dropped = 0
  /\ vehicles = << >>
  /\ arrival_times = << >>
  /\ total_speed = 0
  /\ speed_samples = 0
  /\ stats_flow = 0
  /\ speeds_finished = NoSpeeds
  /\ run = 1
  /\ first_stats = NoStats
  /\ rows = << >>
  /\ uncapped = NoSamples
  /\ ticks = 0
  /\ finished = NoneFinished

ConfigNext ==
  \/ AtascosStart
  \/ TraficoStart
  \/ AtascosArrive
  \/ AtascosNoArrival
  \/ AtascosAdmit
  \/ AtascosStep
  \/ EndTick
  \/ TraficoArrive
  \/ TraficoNoArrival
  \/ TraficoStep

ConfigSpec == ConfigInit /\ [][ConfigNext]_vars

(***************************************************************************)
(* Claims.                                                                 *)
(***************************************************************************)
\* the update loop of the tick is over
TickEnd == pc = "end"

\* the admission step of the tick is over and no vehicle was updated yet
JustAdmitted == pc \in {"update", "end"} /\ last = NoLast

\* C1: in one tick every vehicle active at the start of the update sub-step
\* is updated (speed recomputed, position integrated) exactly once, also when
\* it changes to the lane of index +1 or -1 in that tick
C1_UpdatedOnce ==
  /\ \A i \in DOMAIN upd : upd[i] <= 1
  /\ TickEnd => \A i \in active0 : upd[i] = 1

\* C2: after a vehicle's update its speed is >= 0 and its position is not
\* smaller than before, whatever the gap to the vehicle ahead
C2_SpeedAndPosition ==
  last.id # 0 => (last.v1 >= 0 /\ last.x1 >= last.x0)

\* C3: at the end of every tick the speed of every active vehicle is at most
\* the smaller of its class ceiling and the ceiling of the lane it is in; in
\* a2.py the ceiling is LANE_SPEED[lane]
C3_SpeedCeiling ==
  /\ TickEnd => \A i \in ActiveIds(veh) :
                  veh[i].v <= Ceiling(variant, veh[i].type, veh[i].lane)
  /\ \A k \in 1 .. Len(vehicles) : vehicles[k].speed <= LANE_SPEED(vehicles[k].lane)

\* C3 happens: a vehicle of traff.py that came into a slower lane faster than
\* the ceiling of that lane was updated there and is active at the tick's end
C3_Witness ==
  /\ TickEnd
  /\ variant = "traff"
  /\ last.id # 0
  /\ last.v0 > LANE_SPEED_MS(last.lane0)
  /\ veh[last.id].st = "active"

\* C4: after every tick each lane list is in non-decreasing order of position
C4_LanesSorted ==
  TickEnd => \A l \in 1 .. NUM_LANES : \A k \in 1 .. Len(lanes[l]) - 1 :
               veh[lanes[l][k]].x <= veh[lanes[l][k + 1]].x

\* C5: after every tick no two active vehicles of a lane have overlapping
\* intervals [x, x + length]
C5_NoOverlap ==
  TickEnd => \A i, j \in ActiveIds(veh) :
               (i # j /\ veh[i].lane = veh[j].lane /\ veh[i].x <= veh[j].x)
                 => veh[i].x + Length(variant, veh[i].type) < veh[j].x

\* the number of places vehicle i takes in the list of lane l
Places(l, i) == Cardinality({k \in 1 .. Len(lanes[l + 1]) : lanes[l + 1][k] = i})

\* C6: every active vehicle is exactly once in the list of its lane and in no
\* other list, and the lists hold active vehicles only
C6_OneLaneList ==
  /\ \A i \in ActiveIds(veh) : \A l \in 0 .. NUM_LANES - 1 :
       Places(l, i) = IF l = veh[i].lane THEN 1 ELSE 0
  /\ \A l \in 1 .. NUM_LANES : \A k \in 1 .. Len(lanes[l]) :
       lanes[l][k] \in ActiveIds(veh)

\* C6 happens: a vehicle has just changed lane and is still active
C6_Witness ==
  /\ last.id # 0
  /\ last.changed
  /\ veh[last.id].st = "active"
  /\ Len(lanes[veh[last.id].lane + 1]) >= 2

\* the vehicles of lane l that were on the road before this tick's admission
OnRoadBefore(l) ==
  {lanes[l + 1][k] : k \in 1 .. Len(lanes[l + 1])} \ {promoted[l + 1][k] : k \in 1 .. Len(promoted[l + 1])}

\* gapAtEntry(lane) before this tick's admission: the smallest position of a
\* vehicle of the lane, Inf when the lane was empty
GapAtEntry(l) ==
  IF OnRoadBefore(l) = {} THEN Inf
  ELSE LET i == CHOOSE i \in OnRoadBefore(l) : \A j \in OnRoadBefore(l) : veh[i].x <= veh[j].x
       IN  veh[i].x

Waiting(l) ==
  IF variant = "traff"
  THEN {[pri |-> Priority(variant, entry_queue[k].type), arr |-> entry_queue[k].arr] :
          k \in 1 .. Len(entry_queue)}
  ELSE {[pri |-> Priority(variant, veh[queues[l + 1][k]].type), arr |-> veh[queues[l + 1][k]].arr] :
          k \in 1 .. Len(queues[l + 1])}

\* C8: when a vehicle is promoted, no vehicle left in its queue has a higher
\* priority rank, and none of the same rank arrived earlier
C8_PriorityThenFifo ==
  \A l \in 0 .. NUM_LANES - 1 : \A k \in 1 .. Len(promoted[l + 1]) :
    LET h == veh[promoted[l + 1][k]]
    IN  \A w \in Waiting(l) :
          /\ w.pri <= Priority(variant, h.type)
          /\ w.pri = Priority(variant, h.type) => w.arr > h.arr

\* C8 happens: a vehicle was promoted past one of lower rank that arrived
\* earlier, or ahead of one of its own rank that arrived later
C8_Witness ==
  \E l \in 0 .. NUM_LANES - 1 :
    /\ promoted[l + 1] # <<>>
    /\ \E w \in Waiting(l) :
         \/ w.pri < Priority(variant, veh[promoted[l + 1][1]].type) /\ w.arr < veh[promoted[l + 1][1]].arr
         \/ w.pri = Priority(variant, veh[promoted[l + 1][1]].type)

\* C9: in every tick at most one vehicle becomes active in each lane
C9_OnePromotionPerLane ==
  \A l \in 1 .. NUM_LANES : Len(promoted[l]) <= 1

\* C9 happens: a lane took the head of a queue in which another vehicle is
\* left waiting
C9_Witness ==
  \E l \in 1 .. NUM_LANES :
    /\ Len(promoted[l]) = 1
    /\ (queues[l] # <<>> \/ entry_queue # <<>>)

\* the places an arrival of rank a is in: a queue, a lane list, the finished
ArrivalPlaces(a) ==
  {"queue" : k \in {k \in 1 .. Len(entry_queue) : entry_queue[k].arr = a}}
    \cup {"queue" : l \in {l \in 1 .. NUM_LANES :
                             \E k \in 1 .. Len(queues[l]) : veh[queues[l][k]].arr = a}}
    \cup {"lane" : l \in {l \in 1 .. NUM_LANES :
                            \E k \in 1 .. Len(lanes[l]) : veh[lanes[l][k]].arr = a}}
    \cup {"finished" : i \in {i \in DOMAIN veh : veh[i].st = "finished" /\ veh[i].arr = a}}

C11_ArrivalSchedule ==
  variant \in {"atascos", "traff"} =>
    /\ \A a \in 1 .. Len(arrival_times) - 1 :
         arrival_times[a + 1] - arrival_times[a] = ArrivalInterval(variant)
    /\ pc = "done" => Len(arrival_times) = SIM_SECONDS \div ArrivalInterval(variant)

\* the target lane of the last lane change as the attempt saw it
TakenView == IF last.lane1 = last.lane0 - 1 THEN last.m ELSE last.p

\* the highest priority rank of the program's classes
TopPriority == IF variant = "trafico" THEN 2 ELSE 3

\* C12: no lane change is executed into a lane whose nearest vehicle ahead has
\* a strictly higher priority rank than the candidate, unless the candidate is
\* of the maximum-priority class
C12_YieldToPriority ==
  (last.id # 0 /\ last.changed /\ TakenView.va # 0) =>
    \/ Priority(variant, veh[TakenView.va].type) <= Priority(variant, veh[last.id].type)
    \/ Priority(variant, veh[last.id].type) = TopPriority

\* gap strictly exceeds the clearance required of a vehicle of priority rank
\* pri that attempts a lane change at speed v: the minimum gap for the highest
\* rank; for the others the larger of the minimum gap and speed x headway
\* (traff.py) or speed x headway / 2 (atascos.py, trafico.py)
Clears(gap, pri, v) ==
  /\ gap > MIN_GAP
  /\ pri # TopPriority =>
       gap * 20 > v * SAFE_TIME_HEADWAY * (IF variant = "traff" THEN 2 ELSE 1)

\* C13: a lane change is executed only if the gap to the nearest vehicle ahead
\* and the gap to the nearest vehicle behind in the target lane both strictly
\* exceed the required clearance
C13_BothGapsClear ==
  (last.id # 0 /\ last.changed) =>
    /\ Clears(TakenView.ga, Priority(variant, veh[last.id].type), last.vdec)
    /\ Clears(TakenView.gb, Priority(variant, veh[last.id].type), last.vdec)

\* C13 happens: a vehicle below the highest rank, for which the headway term
\* is the larger one, changed into a lane with a vehicle ahead of it
C13_Witness ==
  /\ last.id # 0
  /\ last.changed
  /\ TakenView.va # 0
  /\ Priority(variant, veh[last.id].type) # TopPriority
  /\ last.vdec * SAFE_TIME_HEADWAY > MIN_GAP * 20

\* the lane seen as w is admissible for the vehicle of the last update: the
\* lane exists, both gaps pass the program's test and, in trafico.py and
\* traff.py, the vehicle ahead does not outrank the candidate
Admits(w) ==
  LET pri == Priority(variant, veh[last.id].type)
      v == last.vdec
      half == /\ w.ga > MIN_GAP /\ w.ga * 20 > v * SAFE_TIME_HEADWAY
              /\ w.gb > MIN_GAP /\ w.gb * 20 > v * SAFE_TIME_HEADWAY
      full == /\ w.ga > MIN_GAP /\ w.ga * 10 > v * SAFE_TIME_HEADWAY
              /\ w.gb > MIN_GAP /\ w.gb * 10 > v * SAFE_TIME_HEADWAY
      outranked == w.va # 0 /\ Priority(variant, veh[w.va].type) > pri
  IN  /\ w.inr
      /\ CASE variant = "atascos" -> half
            [] variant = "trafico" -> half /\ ~outranked
            [] OTHER -> \/ pri = TopPriority /\ w.ga > MIN_GAP /\ w.gb > MIN_GAP
                        \/ full /\ ~outranked

\* C14: one lane-change attempt moves the vehicle by at most one lane; it ends
\* in lane-1 whenever lane-1 is admissible, and in lane+1 only when lane-1 is
\* out of range or rejected and lane+1 is admissible
C14_MinusBeforePlus ==
  last.id # 0 =>
    /\ last.lane1 \in {last.lane0 - 1, last.lane0, last.lane0 + 1}
    /\ last.changed <=> last.lane1 # last.lane0
    /\ last.changed => last.tried
    /\ last.tried =>
         /\ Admits(last.m) => last.lane1 = last.lane0 - 1
         /\ last.lane1 = last.lane0 - 1 => Admits(last.m)
         /\ last.lane1 = last.lane0 + 1 => (~Admits(last.m) /\ Admits(last.p))

\* C14 happens: both neighbour lanes were admissible and the vehicle went to
\* lane-1
C14_Witness ==
  /\ last.id # 0
  /\ last.tried
  /\ Admits(last.m)
  /\ Admits(last.p)
  /\ last.lane1 = last.lane0 - 1

\* when the last update started, the vehicle ahead in the lane was closer than
\* the headway-derived gap v * headway + minimum gap, or slower than 0.8 v
Pressed ==
  LET a == veh[last.ahead0]
      dist == a.x - (last.x0 + Length(variant, veh[last.id].type))
  IN  \/ dist * 10 < last.v0 * SAFE_TIME_HEADWAY + MIN_GAP * 10
      \/ a.v * 10 < last.v0 * 8

\* C15: a vehicle changes lane in its update only if, when the update started,
\* a vehicle was ahead of it in its lane and that vehicle was too close or
\* markedly slower
C15_ChangeOnlyWhenPressed ==
  (last.id # 0 /\ last.changed) => (last.ahead0 # 0 /\ Pressed)

\* the vehicles that were finalized
FinishedIds == {i \in DOMAIN veh : veh[i].st = "finished"}

\* no list holds a vehicle at or past the road end; a finalized vehicle is past
\* the road end, in no lane list, and left no earlier than it entered; the
\* vehicle finalized by the last update crossed the road end in that update
\* and has the time of the tick as its exit time
FinalizedAtRoadEnd ==
  /\ \A l \in 1 .. NUM_LANES : \A k \in 1 .. Len(lanes[l]) :
       veh[lanes[l][k]].x < ROAD_LENGTH_M
  /\ \A k \in 1 .. Len(vehicles) : vehicles[k].position < ROAD_LENGTH
  /\ \A i \in FinishedIds :
       /\ veh[i].x >= ROAD_LENGTH_M
       /\ veh[i].entry_time <= veh[i].exit_time
       /\ \A l \in 0 .. NUM_LANES - 1 : Places(l, i) = 0
  /\ (pc \in {"update", "end"} /\ last.id \in FinishedIds) =>
       /\ veh[last.id].exit_time = t
       /\ last.x0 < ROAD_LENGTH_M
       /\ last.x1 >= ROAD_LENGTH_M

\* a step leaves every finalized vehicle as it is and updates none of them
FinalizedUntouched ==
  \A i \in FinishedIds :
    /\ i \in DOMAIN veh'
    /\ veh'[i] = veh[i]
    /\ last' # last => last'.id # i

\* C16: a vehicle is finalized in the first tick in which its position is at
\* or past the road end, with the tick's time as exit time, set once, and is
\* removed from its lane list and never updated again
C16_FinalizedOnce == []FinalizedAtRoadEnd /\ [][FinalizedUntouched]_vars

\* C16 happens: the last update of atascos.py took a vehicle past the road end
C16_Witness ==
  /\ variant = "atascos"
  /\ pc \in {"update", "end"}
  /\ last.id \in FinishedIds

\* C16 happens in a2.py: a vehicle reached the road end and was removed
C16_WitnessA2 == \E ty \in A2Types : finished[ty] > 0

\* the vehicles of traff.py that arrived after the queue entry w and are on
\* the road or past it: they were promoted while w waited
Overtakers(w) == {i \in DOMAIN veh : veh[i].arr > w.arr}

\* C17: a waiting vehicle is overtaken by every later arrival of strictly
\* higher priority rank and only by those, however long it has waited: in
\* traff.py every vehicle promoted after a waiting entry arrived outranks it;
\* in atascos.py so does every vehicle promoted in this tick from the queue of
\* a vehicle that arrived before it and is left waiting
C17_OvertakenByRank ==
  /\ variant = "traff" =>
       \A k \in 1 .. Len(entry_queue) : \A i \in Overtakers(entry_queue[k]) :
         Priority(variant, veh[i].type) > Priority(variant, entry_queue[k].type)
  /\ variant = "atascos" =>
       \A l \in 1 .. NUM_LANES : \A k \in 1 .. Len(promoted[l]) : \A j \in 1 .. Len(queues[l]) :
         veh[promoted[l][k]].arr > veh[queues[l][j]].arr
           => Priority(variant, veh[promoted[l][k]].type) > Priority(variant, veh[queues[l][j]].type)

\* C17 happens: an entry of traff.py is still waiting after two vehicles that
\* arrived after it were promoted, in two different frames
C17_Witness ==
  /\ variant = "traff"
  /\ \E k \in 1 .. Len(entry_queue) :
       \E i, j \in Overtakers(entry_queue[k]) : veh[i].entry_time < veh[j].entry_time

\* the lane lists the last update must have left if the vehicle stayed in
\* its lane: the lists before it, less the vehicle when it reached the road end
ListsIfStayed ==
  IF veh[last.id].st = "finished"
  THEN [l \in 1 .. NUM_LANES |-> RemoveFirst(last.lists0[l], last.id)]
  ELSE last.lists0

\* C18: the lane index of every vehicle is in [0, NUM_LANES); a lane-change
\* attempt never takes a target outside that range, and when the other target
\* is not admissible either the vehicle keeps its lane and the lane lists are
\* left as they were
C18_LaneInRange ==
  /\ \A i \in DOMAIN veh : veh[i].lane \in 0 .. NUM_LANES - 1
  /\ \A k \in 1 .. Len(vehicles) : vehicles[k].lane \in 0 .. NUM_LANES - 1
  /\ (last.id # 0 /\ last.tried) =>
       /\ ~last.m.inr => last.lane1 # last.lane0 - 1
       /\ ~last.p.inr => last.lane1 # last.lane0 + 1
       /\ ((~last.m.inr /\ ~Admits(last.p)) \/ (~last.p.inr /\ ~Admits(last.m))) =>
            (last.lane1 = last.lane0 /\ lanes = ListsIfStayed)

\* C18 happens: a vehicle of lane 0 attempted a lane change, lane -1 was
\* skipped and lane 1 was not admissible
C18_Witness ==
  /\ last.id # 0
  /\ last.tried
  /\ last.lane0 = 0
  /\ ~Admits(last.p)
  /\ last.ahead0 # 0

\* C19: the second of two runs of atascos.py in one process ends with the
\* statistics of the first: the same number of finished vehicles, in all and
\* per class, and the same mean speed total_speed / speed_samples
C19_SameStatistics ==
  (variant = "atascos" /\ run = 2 /\ pc = "done") =>
    /\ stats_flow = first_stats.flow
    /\ \A ty \in VehTypes(variant) : FinishedCount(ty) = first_stats.count[ty]
    /\ speed_samples = 0 <=> first_stats.samples = 0
    /\ total_speed * first_stats.samples = first_stats.total * speed_samples

\* the time a finished vehicle spent between its entry and its exit
Travel(i) == veh[i].exit_time - veh[i].entry_time

\* the finished vehicles of one class
FinishedOf(ty) == {i \in FinishedIds : veh[i].type = ty}

\* sum((veh.exit_time - veh.entry_time) for veh in finished)
RECURSIVE SumTravel(_)
SumTravel(F) ==
  IF F = {} THEN 0
  ELSE LET i == CHOOSE j \in F : TRUE IN Travel(i) + SumTravel(F \ {i})

\* the product of the travel times of the vehicles of F, the denominator the
\* speeds ROAD_LENGTH_M / travel have in common
RECURSIVE ProdTravel(_)
ProdTravel(F) ==
  IF F = {} THEN 1
  ELSE LET i == CHOOSE j \in F : TRUE IN Travel(i) * ProdTravel(F \ {i})

\* the sum over the vehicles of G of ROAD_LENGTH_M / travel, as a numerator
\* over ProdTravel(F)
RECURSIVE SumSpeeds(_, _)
SumSpeeds(G, F) ==
  IF G = {} THEN 0
  ELSE LET i == CHOOSE j \in G : TRUE
       IN  ROAD_LENGTH_M * ProdTravel(F \ {i}) + SumSpeeds(G \ {i}, F)

\* a speed as a fraction n / d of decimetres per tenth of a second
NoSpeed == [n |-> 0, d |-> 1]

\* sum(speeds) / len(speeds) with speeds = ROAD_LENGTH_M / travel of each
\* vehicle of F
MeanOfSpeeds(F) == [n |-> SumSpeeds(F, F), d |-> Cardinality(F) * ProdTravel(F)]

\* compute_finished_stats of traff.py for one class: the vehicles with
\* travel > 0 contribute
compute_finished_stats(ty) ==
  LET speeds == {i \in FinishedOf(ty) : Travel(i) > 0}
  IN  IF speeds = {} THEN NoSpeed ELSE MeanOfSpeeds(speeds)

\* the results block of trafico.py for one class: the road length over the
\* mean travel time
ResultsSpeed(ty) ==
  [n |-> ROAD_LENGTH_M * Cardinality(FinishedOf(ty)), d |-> SumTravel(FinishedOf(ty))]

\* avg_speed_ms of atascos.py: the mean of the speed samples, which are in
\* decimetres per second
avg_speed_ms ==
  IF speed_samples = 0 THEN NoSpeed ELSE [n |-> total_speed, d |-> 10 * speed_samples]

SameSpeed(a, b) == a.n * b.d = b.n * a.d

\* the vehicles of F are some and each took a positive time
Measurable(F) == F # {} /\ \A i \in F : Travel(i) > 0

\* C20: the mean speed reported for a class is the arithmetic mean, over the
\* finished vehicles of the class, of road length / (exit time - entry time):
\* compute_finished_stats of traff.py, the results block of trafico.py at the
\* end of the run, and the single mean speed of atascos.py at the end of the
\* run against the mean over all its finished vehicles
C20_MeanEffectiveSpeed ==
  /\ variant = "traff" =>
       \A ty \in VehTypes(variant) :
         Measurable(FinishedOf(ty)) =>
           SameSpeed(compute_finished_stats(ty), MeanOfSpeeds(FinishedOf(ty)))
  /\ (variant = "trafico" /\ pc = "done") =>
       \A ty \in VehTypes(variant) :
         Measurable(FinishedOf(ty)) =>
           SameSpeed(ResultsSpeed(ty), MeanOfSpeeds(FinishedOf(ty)))
  /\ (variant = "atascos" /\ pc = "done" /\ Measurable(FinishedIds)) =>
       SameSpeed(avg_speed_ms, MeanOfSpeeds(FinishedIds))

\* C21: reaching the row cap of the trajectory file changes nothing in the
\* simulation: at every step of atascos.py the accumulated speed statistics
\* are those of the run with an unlimited cap.  (Positions, speeds, lanes,
\* queues and the finished count are computed without reading lines_written.)
C21_CapChangesNothing ==
  variant = "atascos" =>
    /\ total_speed = uncapped.total
    /\ speed_samples = uncapped.samples

\* C22: the trajectory file of atascos.py never holds more than MAX_LINES
\* rows; while it is below the cap every vehicle active in a tick gets exactly
\* one row in that tick, and never more than one
C22_OneRowPerVehicle ==
  variant = "atascos" =>
    /\ lines_written <= MAX_LINES
    /\ \A i \in DOMAIN rows : rows[i] <= 1
    /\ (TickEnd /\ lines_written < MAX_LINES) => \A i \in active0 : rows[i] = 1

\* ceil(a / b) for positive b
Ceil(a, b) == (a + b - 1) \div b

\* the programs whose loop is `while t < horizon: ...; t += timestep`
TickLoops == {"atascos", "trafico", "a2"}

\* the loop has stopped exactly when the simulated time has reached the
\* horizon, and it stopped at the first tick boundary at or past it, after
\* ceil(horizon / timestep) ticks
StopsAtHorizon ==
  variant \in TickLoops =>
    /\ pc = "done" <=> t >= SIM_SECONDS
    /\ pc = "done" => (t - DT < SIM_SECONDS /\ ticks = Ceil(SIM_SECONDS, DT))

\* a step that ends a tick advances the simulated time by the timestep, and no
\* other step changes it
TimeAdvances ==
  variant \in TickLoops =>
    /\ ticks' = ticks + 1 => t' = t + DT
    /\ ticks' = ticks => t' = t
    /\ ticks' \in {ticks, ticks + 1}

\* what is left of the run: the ticks to come, then within the tick the
\* sub-steps to come, the lanes the update loop has not finished and the
\* vehicles left in the snapshot of its lane
Remaining ==
  <<Ceil(SIM_SECONDS, DT) - ticks,
    CASE pc = "arrive" -> 3 [] pc = "admit" -> 2 [] pc = "update" -> 1 [] OTHER -> 0,
    IF pc = "update" THEN NUM_LANES - lane_idx ELSE 0,
    IF pc = "update" THEN Len(todo) ELSE 0>>

\* a comes before b in the lexicographic order of tuples of four numbers
LexLess(a, b) ==
  \E k \in 1 .. 4 : a[k] < b[k] /\ \A j \in 1 .. k - 1 : a[j] = b[j]

\* every step brings the end of the run nearer
Progress == variant \in TickLoops => LexLess(Remaining', Remaining)

\* what is left is never negative, and the update loop is at a vehicle of its
\* snapshot whenever it has not finished (the other sub-steps have no
\* condition beyond their place in the tick)
CanGoOn ==
  variant \in TickLoops =>
    /\ \A k \in 1 .. 4 : Remaining[k] >= 0
    /\ pc = "update" => (todo # << >> /\ lane_idx < NUM_LANES /\ Head(todo) \in DOMAIN veh)

\* C23: with a positive timestep and a positive horizon the tick loop of
\* atascos.py, trafico.py and a2.py terminates: the simulated time strictly
\* increases with every tick, every step lowers a bounded measure of what is
\* left of the run, and the loop stops at the first tick boundary at which
\* the simulated time is >= the horizon, after ceil(horizon / timestep) ticks
C23_LoopTerminates ==
  /\ []StopsAtHorizon
  /\ []CanGoOn
  /\ [][TimeAdvances /\ Progress]_vars

\* C23 happens: the loop of atascos.py has stopped after all its ticks
C23_Witness ==
  /\ variant = "atascos"
  /\ pc = "done"
  /\ ticks = MaxTicks
  /\ DT > 0
  /\ SIM_SECONDS > 0

\* the run was configured with a timestep or a horizon that is not positive
BadConfig == dt <= 0 \/ horizon <= 0

\* the program has reported a configuration error (no statement of the two
\* programs leads here)
ConfigError == pc = "error"

\* C24: started with a timestep <= 0 or a horizon <= 0, atascos.py and
\* trafico.py report a configuration error and do not start: no tick runs, no
\* vehicle is created and no output is opened or written
C24_ConfigRejected ==
  (variant \in {"atascos", "trafico"} /\ BadConfig) =>
    /\ pc = "start" \/ ConfigError
    /\ ~opened
    /\ ticks = 0
    /\ veh = << >>
    /\ speed_samples = 0

\* the last update was that of a car that was the only vehicle on the road,
\* in a run without random slowdowns
LoneCar ==
  /\ last.id # 0
  /\ slows = 0
  /\ veh[last.id].type = "car"
  /\ \A l \in 1 .. NUM_LANES :
       last.lists0[l] = IF l = last.lane0 + 1 THEN <<last.id>> ELSE << >>

\* C25: a car alone on the road, with acceleration 1.5 m/s^2, ceiling 33.3 m/s
\* and no random slowdown, gains exactly min(ceiling - speed, 1.5 x dt) in
\* each tick, once, moves by its new speed x dt, and is finalized in the tick
\* in which that trajectory passes the road end (atascos.py, traff.py)
C25_LoneCarKinematics ==
  (variant \in {"atascos", "traff"} /\ LoneCar) =>
    /\ last.v1 = last.v0 + Min(MAX_SPEED - last.v0, (ACCEL * dt) \div 10)
    /\ last.x1 = last.x0 + (last.v1 * dt) \div 10
    /\ upd[last.id] = 1
    /\ veh[last.id].st = "finished" <=> last.x1 >= ROAD_LENGTH_M

\* the gap of the car-following rule for the vehicle of the last update, taken
\* in the lane the vehicle held after its lane-change attempt, with the
\* positions the update started from
GapInLaneHeld ==
  LET i == last.id
      others == SelectSeq(last.lists0[last.lane1 + 1], LAMBDA j : j # i)
      a == NearestAhead(veh, others, last.x0)
  IN  IF a = 0 THEN Inf ELSE veh[a].x - (last.x0 + Length(variant, veh[i].type))

\* C26: within a tick arrivals come first, then admission, then for each
\* vehicle the lane-change attempt, the car-following rule, the random
\* slowdown, the integration and the exit check; so the speed of a vehicle is
\* computed against the vehicle ahead in the lane it holds after its
\* lane-change attempt (atascos.py, trafico.py, traff.py)
C26_SpeedAfterLaneChange ==
  (variant \in {"atascos", "trafico", "traff"} /\ last.id # 0 /\ last.tried) =>
    last.gap = GapInLaneHeld

\* the vehicle the car-following rule of the last update measured its gap to:
\* the vehicle ahead in the lane held when the rule ran
Leader ==
  IF variant = "traff" THEN last.ahead0
  ELSE NearestAhead(veh, SelectSeq(last.lists0[last.lane1 + 1], LAMBDA j : j # last.id),
                    last.x0)

\* gap = ahead.position - ahead.length - v.position
ReferenceGap == veh[Leader].x - Length(variant, veh[Leader].type) - last.x0

\* the speed the reference rule gives the vehicle of the last update
ReferenceSpeed ==
  LET ty == veh[last.id].type
      target == Min(Ceiling(variant, ty, last.lane0), SafeSpeed(ReferenceGap))
      acc == (Accel(variant, ty) * dt) \div 10
      dec == (DECEL_MAX * dt) \div 10
  IN  IF last.v0 > target THEN last.v0 - Min(last.v0 - target, dec)
      ELSE last.v0 + Min(target - last.v0, acc)

\* C27: with a vehicle ahead in the same lane the car-following rule uses
\* gap = ahead.position - ahead.length - v.position and
\* targetSpeed = min(ceiling, gap / headway), lowers the speed by
\* min(speed - targetSpeed, maxDeceleration x dt) when above the target and
\* raises it by min(targetSpeed - speed, acceleration x dt) otherwise, for
\* every pair of lengths of follower and leader
C27_FollowsReference ==
  (variant \in {"atascos", "trafico", "traff"} /\ last.id # 0 /\ Leader # 0) =>
    /\ last.gap = ReferenceGap
    /\ slows = 0 => last.v1 = ReferenceSpeed

\* the lane-change attempt of the script for vehicle i
LaneChange(vf, ln, i) ==
  CASE variant = "atascos" -> try_change_lane(vf, ln, i)
    [] variant = "trafico" -> trafico_try_lane_change(vf, ln, i)
    [] OTHER -> traff_try_lane_change(vf, ln, i)

\* the vehicles of a lane list
Members(s) == {s[k] : k \in 1 .. Len(s)}

\* what a lane-change attempt of vehicle i leaves alone
OnlyLaneMoved(i) ==
  LET c == LaneChange(veh, lanes, i)
      src == veh[i].lane
      tgt == c.vf[i].lane
  IN  /\ DOMAIN c.vf = DOMAIN veh
      /\ \A j \in DOMAIN veh \ {i} : c.vf[j] = veh[j]
      /\ c.vf[i] = [veh[i] EXCEPT !.lane = tgt]
      /\ c.ok =>
            /\ tgt \in {src - 1, src + 1}
            /\ Members(c.ln[tgt + 1]) = Members(lanes[tgt + 1]) \cup {i}
            /\ Len(c.ln[tgt + 1]) = Len(lanes[tgt + 1]) + 1
            /\ Members(c.ln[src + 1]) = Members(lanes[src + 1]) \ {i}
            /\ Len(c.ln[src + 1]) = Len(lanes[src + 1]) - 1
            /\ \A l \in 1 .. NUM_LANES : l \notin {src + 1, tgt + 1} => c.ln[l] = lanes[l]
      /\ ~c.ok => (c.vf = veh /\ c.ln = lanes)

\* C28: a lane-change attempt changes only the lane index of the candidate and
\* the membership of its source and target lane lists; the candidate's position
\* and speed, every other vehicle and every third lane list are left as they
\* were, and an attempt that returns False changes nothing
C28_LaneChangeFrame ==
  variant \in {"atascos", "trafico", "traff"} =>
    /\ \A i \in ActiveIds(veh) : OnlyLaneMoved(i)
    /\ last.id # 0 =>
          \A l \in 1 .. NUM_LANES :
            l \notin {last.lane0 + 1, last.lane1 + 1} => lanes[l] = last.lists0[l]

\* a vehicle has just changed lane with a vehicle in the third lane, and of
\* the vehicles now on the road one could change lane and one could not
C28_Witness ==
  /\ variant \in {"atascos", "trafico", "traff"}
  /\ last.id # 0
  /\ last.changed
  /\ \E l \in 1 .. NUM_LANES :
        l \notin {last.lane0 + 1, last.lane1 + 1} /\ last.lists0[l] # <<>>
  /\ \E i \in ActiveIds(veh) : LaneChange(veh, lanes, i).ok
  /\ \E i \in ActiveIds(veh) : ~LaneChange(veh, lanes, i).ok

====
